---- MODULE Spec2Model ----
(***************************************************************************)
(* Model of the download auto-processor (src/main.py): the watchdog        *)
(* handler DownloadHandler, the CSV -> XLSX conversion pipeline            *)
(* (read_csv_with_encoding, preserve_numeric_precision, the Excel writer,  *)
(* validate_conversion, process_csv_file) and the archive extractors.      *)
(*                                                                         *)
(* Numbers are fixed-point integers counted in 1/Scale units, so that      *)
(* "1.5" is 150 and "007" is 700.  Strings are sequences of one-character  *)
(* strings so that the numeric parser can inspect them.                    *)
(*                                                                         *)
(* The logging sink (ui.logger and the ui display functions) is taken as   *)
(* a collaborator                                                          *)
(* that does not raise and keeps no state the pipeline reads.              *)
(***************************************************************************)
EXTENDS Integers, Sequences, FiniteSets, TLC

\* ------------------------------------------------------------------ bounds

\* Longest column the normalizer is exercised on in SpecNormalize.
MaxColLen == 3

\* Number of times the validator is called on one pair in SpecValidate.
MaxCalls == 2

\* Number of changes the environment makes to the watched directory
\* (downloads arriving, renames, removals).
MaxArrivals == 2

\* Fixed-point scale of the model's numbers (two decimal places).
Scale == 10 * 10

\* ------------------------------------------------------------------- cells

\* A cell of a DataFrame: a missing value (NaN), a number or a string.
NaN == [k |-> "nan", n |-> 0, s |-> <<>>]

Num(v) == [k |-> "num", n |-> v, s |-> <<>>]

Str(chars) == [k |-> "str", n |-> 0, s |-> chars]

\* pd.isna / Series.isna on one cell.
isna(c) == c.k = "nan"

Digits == {"0", "1", "2", "3", "4", "5", "6", "7", "8", "9"}

DigitVal(c) ==
  CASE c = "0" -> 0 [] c = "1" -> 1 [] c = "2" -> 2 [] c = "3" -> 3
    [] c = "4" -> 4 [] c = "5" -> 5 [] c = "6" -> 6 [] c = "7" -> 7
    [] c = "8" -> 8 [] c = "9" -> 9 [] OTHER -> 0

\* Value of a sequence of digits read as a decimal integer.
RECURSIVE IntOf(_)
IntOf(ds) ==
  IF ds = <<>> THEN 0
  ELSE 10 * IntOf(SubSeq(ds, 1, Len(ds) - 1)) + DigitVal(ds[Len(ds)])

\* Position of the first "." of a string, 0 when there is none.
DotPos(chars) ==
  IF \E i \in 1..Len(chars) : chars[i] = "."
  THEN CHOOSE i \in 1..Len(chars) :
         chars[i] = "." /\ \A j \in 1..(i - 1) : chars[j] # "."
  ELSE 0

\* Whether pd.to_numeric parses the string: digits with at most one decimal
\* point and at least one digit.
Parses(chars) ==
  /\ Len(chars) > 0
  /\ \A i \in 1..Len(chars) : chars[i] \in Digits \cup {"."}
  /\ Cardinality({i \in 1..Len(chars) : chars[i] = "."}) <= 1
  /\ \E i \in 1..Len(chars) : chars[i] \in Digits

\* The number a parsable string denotes, in 1/Scale units.  Leading zeros
\* carry no value: "007" is 7.
NumValue(chars) ==
  LET d    == DotPos(chars)
      ip   == IF d = 0 THEN chars ELSE SubSeq(chars, 1, d - 1)
      fp   == IF d = 0 THEN <<>> ELSE SubSeq(chars, d + 1, Len(chars))
      fp2  == IF Len(fp) >= 2 THEN SubSeq(fp, 1, 2)
              ELSE IF Len(fp) = 1 THEN fp \o <<"0">> ELSE <<"0", "0">>
  IN  IntOf(ip) * Scale + IntOf(fp2)

\* pd.to_numeric(..., errors='coerce') on one cell of an object column.
to_numeric(c) ==
  IF c.k = "str"
  THEN IF Parses(c.s) THEN Num(NumValue(c.s)) ELSE NaN
  ELSE c

\* ------------------------------------------------------------ columns, tables

\* A column: its name, its dtype ("object", "int64", "float64") and cells.
Column(name, dtype, cells) == [name |-> name, dtype |-> dtype, cells |-> cells]

\* Series.dropna(): the cells that are not missing.
dropna(cells) == SelectSeq(cells, LAMBDA c : ~isna(c))

\* Series.astype(int) on a float column raises ValueError when a value is
\* not finite (NaN).
astype_int_raises(cells) == \E i \in 1..Len(cells) : isna(cells[i])

\* numeric_col == numeric_col.astype(int) for one present value.
is_exact_int(c) == c.n % Scale = 0

\* Mutant: the comparison with astype(int) does not raise on a missing
\* value, so the column counts as not integral and is replaced.
PreserveColumn_IgnoresCastError(col) ==
  IF col.dtype # "object" THEN col
  ELSE
    LET numeric_col == [i \in 1..Len(col.cells) |-> to_numeric(col.cells[i])]
    IN  IF \A i \in 1..Len(numeric_col) : isna(numeric_col[i]) THEN col
        ELSE IF Len(dropna(numeric_col)) # Len(dropna(col.cells)) THEN col
        ELSE IF \A i \in 1..Len(numeric_col) :
                  ~isna(numeric_col[i]) /\ is_exact_int(numeric_col[i])
             THEN col
        ELSE Column(col.name, "float64", numeric_col)

\* One iteration of the loop of preserve_numeric_precision over the columns.
PreserveColumn(col) ==
  IF col.dtype # "object" THEN col
  ELSE
    LET numeric_col == [i \in 1..Len(col.cells) |-> to_numeric(col.cells[i])]
    IN  IF \A i \in 1..Len(numeric_col) : isna(numeric_col[i]) THEN col
        ELSE IF Len(dropna(numeric_col)) # Len(dropna(col.cells)) THEN col
        ELSE IF astype_int_raises(numeric_col) THEN col
        ELSE IF \A i \in 1..Len(numeric_col) :
                  ~isna(numeric_col[i]) /\ is_exact_int(numeric_col[i])
             THEN col
        ELSE Column(col.name, "float64", numeric_col)

\* preserve_numeric_precision: a table is a sequence of columns.
preserve_numeric_precision(df) ==
  [j \in 1..Len(df) |-> PreserveColumn(df[j])]

\* ------------------------------------------------------------ CSV bytes

\* The bytes of a CSV file, described by what the libraries make of them:
\*   guess, conf  what chardet.detect reports (conf in percent)
\*   std          per codec, how the standard pd.read_csv ends: "ok",
\*                "decode" (UnicodeDecodeError), "fields" (ParserError
\*                "Expected n fields ..."), "parser" (another ParserError),
\*                "other" (any other exception, e.g. EmptyDataError)
\*   relax        the fallback strategies that parse the bytes
\*   table        the table of a standard parse
\*   lenient      the table when bad lines are skipped
Bytes(guess, conf, std, relax, table, lenient) ==
  [guess |-> guess, conf |-> conf, std |-> std, relax |-> relax,
   table |-> table, lenient |-> lenient]

Codecs == {"utf8", "latin1", "cp1252", "utf16", "ascii"}

\* The codec Python looks up for an encoding name ("" when there is none:
\* LookupError).
Codec(enc) ==
  CASE enc = "utf-8" -> "utf8"
    [] enc \in {"latin-1", "iso-8859-1", "ISO-8859-1"} -> "latin1"
    [] enc = "cp1252" -> "cp1252"
    [] enc = "UTF-16" -> "utf16"
    [] enc = "ascii" -> "ascii"
    [] OTHER -> ""

\* detect_file_encoding: chardet's guess when it is confident, else utf-8.
ConfidenceThreshold == 70

detect_file_encoding(bytes) ==
  IF bytes.guess # "none" /\ bytes.conf > ConfidenceThreshold
  THEN bytes.guess
  ELSE "utf-8"

\* list(dict.fromkeys(xs)): duplicates dropped, first-seen order kept.
RECURSIVE Dedup(_)
Dedup(xs) ==
  IF xs = <<>> THEN <<>>
  ELSE LET front == Dedup(SubSeq(xs, 1, Len(xs) - 1))
           x     == xs[Len(xs)]
       IN  IF \E i \in 1..Len(front) : front[i] = x THEN front
           ELSE Append(front, x)

\* Mutant: the candidate list without the removal of duplicates.
encodings_to_try_NoDedup(bytes) ==
  <<detect_file_encoding(bytes), "utf-8", "latin-1", "cp1252", "iso-8859-1">>

encodings_to_try(bytes) ==
  Dedup(<<detect_file_encoding(bytes), "utf-8", "latin-1", "cp1252",
          "iso-8859-1">>)

\* pd.read_csv(file_path, encoding=enc, low_memory=False): how it ends.
pd_read_csv(bytes, enc) ==
  IF Codec(enc) = "" THEN "other" ELSE bytes.std[Codec(enc)]

\* The fallback strategies with the two C engine entries exchanged.
strategies_QuoteNoneFirst ==
  << [name |-> "Python engine with error skip", engine |-> "python",
      on_bad_lines |-> "skip", quoting |-> "QUOTE_MINIMAL"],
     [name |-> "Python engine with error warn", engine |-> "python",
      on_bad_lines |-> "warn", quoting |-> "QUOTE_MINIMAL"],
     [name |-> "C engine with QUOTE_NONE", engine |-> "c",
      on_bad_lines |-> "error", quoting |-> "QUOTE_NONE"],
     [name |-> "C engine with QUOTE_ALL", engine |-> "c",
      on_bad_lines |-> "error", quoting |-> "QUOTE_ALL"],
     [name |-> "Python engine with QUOTE_ALL", engine |-> "python",
      on_bad_lines |-> "warn", quoting |-> "QUOTE_ALL"] >>

\* The fallback strategies, in the order of the list in the source.
strategies ==
  << [name |-> "Python engine with error skip", engine |-> "python",
      on_bad_lines |-> "skip", quoting |-> "QUOTE_MINIMAL"],
     [name |-> "Python engine with error warn", engine |-> "python",
      on_bad_lines |-> "warn", quoting |-> "QUOTE_MINIMAL"],
     [name |-> "C engine with QUOTE_ALL", engine |-> "c",
      on_bad_lines |-> "error", quoting |-> "QUOTE_ALL"],
     [name |-> "C engine with QUOTE_NONE", engine |-> "c",
      on_bad_lines |-> "error", quoting |-> "QUOTE_NONE"],
     [name |-> "Python engine with QUOTE_ALL", engine |-> "python",
      on_bad_lines |-> "warn", quoting |-> "QUOTE_ALL"] >>

\* The result of a read: ok is FALSE for None.
NoTable(trace) ==
  [ok |-> FALSE, df |-> <<>>, enc |-> "", how |-> "", trace |-> trace]

SomeTable(df, enc, how, trace) ==
  [ok |-> TRUE, df |-> df, enc |-> enc, how |-> how, trace |-> trace]

\* try_parse_csv_with_strategy: the table, or None when pd.read_csv raises.
try_parse_csv_with_strategy(bytes, enc, st) ==
  IF st.name \in bytes.relax /\ Codec(enc) # ""
     /\ bytes.std[Codec(enc)] # "decode"
  THEN SomeTable(IF st.on_bad_lines \in {"skip", "warn"}
                 THEN bytes.lenient ELSE bytes.table,
                 enc, st.name, <<>>)
  ELSE NoTable(<<>>)

\* The loop over the strategies, from strategy k on; trace lists the attempts.
RECURSIVE TryStrategies(_, _, _, _)
TryStrategies(bytes, enc, k, trace) ==
  IF k > Len(strategies) THEN NoTable(trace)
  ELSE LET st  == strategies[k]
           df  == try_parse_csv_with_strategy(bytes, enc, st)
           now == Append(trace, <<enc, st.name>>)
       IN  IF df.ok THEN SomeTable(df.df, enc, st.name, now)
           ELSE TryStrategies(bytes, enc, k + 1, now)

\* Mutant: gives up when every strategy failed for one encoding.
RECURSIVE ReadLoop_GivesUpAfterStrategies(_, _, _, _)
ReadLoop_GivesUpAfterStrategies(bytes, encs, i, trace) ==
  IF i > Len(encs) THEN NoTable(trace)
  ELSE LET enc == encs[i]
           end == pd_read_csv(bytes, enc)
           now == Append(trace, <<enc, "standard">>)
       IN  IF end = "ok" THEN SomeTable(bytes.table, enc, "standard", now)
           ELSE IF end = "fields"
           THEN TryStrategies(bytes, enc, 1, now)
           ELSE ReadLoop_GivesUpAfterStrategies(bytes, encs, i + 1, now)

\* Mutant: every ParserError starts the strategies, whatever its message.
RECURSIVE ReadLoop_RelaxesOnAnyParserError(_, _, _, _)
ReadLoop_RelaxesOnAnyParserError(bytes, encs, i, trace) ==
  IF i > Len(encs) THEN NoTable(trace)
  ELSE LET enc == encs[i]
           end == pd_read_csv(bytes, enc)
           now == Append(trace, <<enc, "standard">>)
       IN  IF end = "ok" THEN SomeTable(bytes.table, enc, "standard", now)
           ELSE IF end \in {"fields", "parser"}
           THEN LET r == TryStrategies(bytes, enc, 1, now)
                IN  IF r.ok THEN r
                    ELSE ReadLoop_RelaxesOnAnyParserError(bytes, encs, i + 1,
                                                          r.trace)
           ELSE ReadLoop_RelaxesOnAnyParserError(bytes, encs, i + 1, now)

\* The loop of read_csv_with_encoding over the encodings, from the i-th on.
RECURSIVE ReadLoop(_, _, _, _)
ReadLoop(bytes, encs, i, trace) ==
  IF i > Len(encs) THEN NoTable(trace)
  ELSE LET enc == encs[i]
           end == pd_read_csv(bytes, enc)
           now == Append(trace, <<enc, "standard">>)
       IN  IF end = "ok" THEN SomeTable(bytes.table, enc, "standard", now)
           ELSE IF end = "fields"
           THEN LET r == TryStrategies(bytes, enc, 1, now)
                IN  IF r.ok THEN r
                    ELSE ReadLoop(bytes, encs, i + 1, r.trace)
           ELSE ReadLoop(bytes, encs, i + 1, now)

read_csv_with_encoding(bytes) ==
  ReadLoop(bytes, encodings_to_try(bytes), 1, <<>>)


\* ------------------------------------------------------------ sample files

\* Tables of the sample files.
TGood ==
  << Column("id", "int64", <<Num(1 * Scale), Num(2 * Scale)>>),
     Column("name", "object", <<Str(<<"a">>), Str(<<"b">>)>>) >>

\* TGood without its second line, as a lenient parse returns a ragged file.
TGoodSkipped ==
  << Column("id", "int64", <<Num(1 * Scale)>>),
     Column("name", "object", <<Str(<<"a">>)>>) >>

THeader ==
  << Column("id", "object", <<>>), Column("name", "object", <<>>) >>

\* A text column of fractional numbers, which the normalizer converts.
TFrac ==
  << Column("code", "object", <<Str(<<"0", "0", "7">>), Str(<<"4", "2">>)>>),
     Column("ratio", "object", <<Str(<<"1", ".", "5">>),
                                   Str(<<"2", ".", "2", "5">>)>>) >>

\* Numeric columns, one of whole-valued floats, and a missing value.
TNums ==
  << Column("qty", "float64", <<Num(3 * Scale), NaN>>),
     Column("price", "float64", <<Num(Scale + 50), Num(2 * Scale)>>) >>

\* Seven rows: more than the validator samples.
TLong ==
  << Column("n", "int64",
            [i \in 1..7 |-> Num(i * Scale)]) >>

\* TNums with the first quantity cleared, as a workbook that lost a value.
TNumsCleared ==
  << Column("qty", "float64", <<NaN, NaN>>),
     Column("price", "float64", <<Num(Scale + 50), Num(2 * Scale)>>) >>

\* TLong with another value in its seventh row, and in its second row.
TLongTail ==
  << Column("n", "int64",
            [i \in 1..7 |-> IF i = 7 THEN Num(0) ELSE Num(i * Scale)]) >>

TLongHead ==
  << Column("n", "int64",
            [i \in 1..7 |-> IF i = 2 THEN Num(0) ELSE Num(i * Scale)]) >>

AllCodecs(end) == [c \in Codecs |-> end]

\* The sample files, by name.
CsvIds ==
  {"good", "latin", "ragged", "quoted", "broken", "utf16", "zero", "header",
   "frac", "nums", "binary", "long"}

CsvBytes(id) ==
  CASE id = "good" ->
         Bytes("ascii", 100, AllCodecs("ok"), {}, TGood, TGood)
    [] id = "latin" ->
         \* readable under latin-1 and cp1252, not under utf-8
         Bytes("none", 0,
               [AllCodecs("ok") EXCEPT !["utf8"] = "decode",
                                       !["ascii"] = "decode",
                                       !["utf16"] = "decode"],
               {}, TGood, TGood)
    [] id = "ragged" ->
         \* one line with an extra unquoted comma
         Bytes("utf-8", 99, [AllCodecs("fields") EXCEPT !["utf16"] = "decode"],
               {"Python engine with error skip",
                "Python engine with error warn",
                "Python engine with QUOTE_ALL"},
               TGood, TGoodSkipped)
    [] id = "quoted" ->
         \* stray quotes: only a parse that ignores quotes gets through
         Bytes("ascii", 100, [AllCodecs("fields") EXCEPT !["utf16"] = "decode"],
               {"C engine with QUOTE_NONE"}, TGood, TGoodSkipped)
    [] id = "broken" ->
         \* no strategy parses it under any encoding
         Bytes("utf-8", 80, [AllCodecs("fields") EXCEPT !["utf16"] = "decode"],
               {}, TGood, TGoodSkipped)
    [] id = "utf16" ->
         \* a confident wrong guess: ragged as UTF-16, fine as utf-8
         Bytes("UTF-16", 90, [AllCodecs("ok") EXCEPT !["utf16"] = "fields"],
               {}, TGood, TGoodSkipped)
    [] id = "zero" ->
         \* zero bytes: EmptyDataError under every encoding
         Bytes("none", 0, AllCodecs("other"), {}, <<>>, <<>>)
    [] id = "header" ->
         Bytes("ascii", 100, AllCodecs("ok"), {}, THeader, THeader)
    [] id = "frac" ->
         Bytes("ascii", 100, AllCodecs("ok"), {}, TFrac, TFrac)
    [] id = "nums" ->
         Bytes("ascii", 60, AllCodecs("ok"), {}, TNums, TNums)
    [] id = "binary" ->
         \* not text: undecodable or unparsable under every encoding
         Bytes("none", 0,
               [AllCodecs("decode") EXCEPT !["latin1"] = "parser"],
               {}, <<>>, <<>>)
    [] OTHER ->
         Bytes("ISO-8859-1", 73, AllCodecs("ok"), {}, TLong, TLong)

\* ------------------------------------------------------------ spreadsheet

\* df.shape
NRows(df) == IF Len(df) = 0 THEN 0 ELSE Len(df[1].cells)

shape(df) == <<NRows(df), Len(df)>>

\* list(df.columns)
columns(df) == [j \in 1..Len(df) |-> df[j].name]

\* df.to_excel(writer, index=False, float_format='%.15g'): a sheet keeps the
\* header and the cells (a number, a string, or blank for NaN) and no dtype.
to_excel(df) ==
  [j \in 1..Len(df) |-> [name |-> df[j].name, cells |-> df[j].cells]]

\* The dtype pd.read_excel infers for a column of cells.
InferDtype(cells) ==
  IF Len(cells) = 0 THEN "object"
  ELSE IF \E i \in 1..Len(cells) : cells[i].k = "str" THEN "object"
  ELSE IF \E i \in 1..Len(cells) : cells[i].k = "nan" THEN "float64"
  ELSE IF \A i \in 1..Len(cells) : is_exact_int(cells[i]) THEN "int64"
  ELSE "float64"

\* pd.read_excel on a sheet.
read_excel(sheet) ==
  [j \in 1..Len(sheet) |->
     Column(sheet[j].name, InferDtype(sheet[j].cells), sheet[j].cells)]

\* ------------------------------------------------------------ files

\* A directory entry: kind "absent" (no file), "csv" (bytes of the catalogue,
\* named by id), "xlsx" (a workbook holding sheet), "junk" (a truncated
\* workbook), "zip" or "7z" (an archive of the catalogue, named by id).
File(kind, id, sheet) == [kind |-> kind, id |-> id, sheet |-> sheet]

Absent == File("absent", "", <<>>)

\* ------------------------------------------------------------ validation

ValidationResult(d, c, t, s) ==
  [dimensions_match |-> d, columns_match |-> c, data_types_preserved |-> t,
   sample_data_match |-> s]

is_valid(v) ==
  /\ v.dimensions_match
  /\ v.columns_match
  /\ v.data_types_preserved
  /\ v.sample_data_match

AllFalse == ValidationResult(FALSE, FALSE, FALSE, FALSE)

\* pd.api.types.is_numeric_dtype on a column dtype.
is_numeric_dtype(dtype) == dtype \in {"int64", "float64"}

HasColumn(df, name) == \E j \in 1..Len(df) : df[j].name = name

\* df[col]: the column of that name (KeyError when there is none).
ColByName(df, name) == df[CHOOSE j \in 1..Len(df) : df[j].name = name]

\* The Python type of df.iloc[i][col]: the row is a Series of one dtype, so
\* in an all-numeric table an int is widened to float when a float column
\* exists; with an object column present each value keeps its own type.
ValueType(df, name, i) ==
  LET c == ColByName(df, name).cells[i]
  IN  IF c.k = "str" THEN "str"
      ELSE IF c.k = "nan" THEN "float"
      ELSE IF \A j \in 1..Len(df) : df[j].dtype = "int64" THEN "int"
      ELSE IF \A j \in 1..Len(df) : is_numeric_dtype(df[j].dtype)
           THEN "float"
      ELSE IF ColByName(df, name).dtype = "int64" THEN "int"
      ELSE "float"

\* The decimal digits of a natural number.
RECURSIVE FormatInt(_)
FormatInt(n) ==
  LET d == <<"0", "1", "2", "3", "4", "5", "6", "7", "8", "9">>
  IN  IF n < 10 THEN <<d[n + 1]>>
      ELSE Append(FormatInt(n \div 10), d[(n % 10) + 1])

\* str(value): a string is itself, NaN is "nan", an int its digits, a float
\* its shortest repr ("3.0", "1.5", "2.25").
str(c, type) ==
  IF c.k = "str" THEN c.s
  ELSE IF c.k = "nan" THEN <<"n", "a", "n">>
  ELSE IF type = "int" THEN FormatInt(c.n \div Scale)
  ELSE LET f == c.n % Scale
       IN  FormatInt(c.n \div Scale) \o <<".">> \o
           (IF f % 10 = 0 THEN FormatInt(f \div 10)
            ELSE IF f < 10 THEN <<"0">> \o FormatInt(f)
            ELSE FormatInt(f))

Abs(x) == IF x < 0 THEN 0 - x ELSE x

\* abs(float(a) - float(b)) > 1e-6; every comparison with NaN is false.
DiffersNumerically(a, b) ==
  /\ a.k = "num"
  /\ b.k = "num"
  /\ Abs(a.n - b.n) * 1000000 > Scale

\* The body of the sampling loop for one cell: TRUE when it reports a
\* mismatch.
CellMismatch(df_csv, df_xlsx, name, i) ==
  LET csv_val  == ColByName(df_csv, name).cells[i]
      xlsx_val == ColByName(df_xlsx, name).cells[i]
  IN  IF isna(csv_val) /\ isna(xlsx_val) THEN FALSE
      ELSE IF csv_val.k # "str" /\ xlsx_val.k # "str"
      THEN DiffersNumerically(csv_val, xlsx_val)
      ELSE str(csv_val, ValueType(df_csv, name, i))
             # str(xlsx_val, ValueType(df_xlsx, name, i))

SampleRows == 5

Min(a, b) == IF a < b THEN a ELSE b

sample_size(df_csv) == Min(SampleRows, NRows(df_csv))

\* The exception the try block of validate_conversion meets on the two
\* tables, "none" when it runs through: a column of the source missing from
\* the workbook (KeyError at df_xlsx[col]) or a sampled row missing from it
\* (IndexError at df_xlsx.iloc[i]).
ComparisonRaises(df_csv, df_xlsx) ==
  IF \E j \in 1..Len(df_csv) : ~HasColumn(df_xlsx, df_csv[j].name)
  THEN "KeyError"
  ELSE IF /\ NRows(df_csv) > 0
          /\ Len(df_csv) > 0
          /\ sample_size(df_csv) > NRows(df_xlsx)
  THEN "IndexError"
  ELSE "none"

\* The four comparisons of validate_conversion on two tables.
CompareTables(df_csv, df_xlsx) ==
  ValidationResult(
    shape(df_csv) = shape(df_xlsx),
    columns(df_csv) = columns(df_xlsx),
    \A j \in 1..Len(df_csv) :
       LET csv_dtype  == df_csv[j].dtype
           xlsx_dtype == ColByName(df_xlsx, df_csv[j].name).dtype
       IN  csv_dtype # xlsx_dtype =>
             (is_numeric_dtype(csv_dtype) /\ is_numeric_dtype(xlsx_dtype)),
    \A i \in 1..sample_size(df_csv) : \A j \in 1..Len(df_csv) :
       ~CellMismatch(df_csv, df_xlsx, df_csv[j].name, i))

\* What stops validate_conversion before its return statement: "none", or
\* the source that cannot be re-read ("unreadable": the reader returned None;
\* "FileNotFoundError": no source file), or the exception the except clause
\* catches.
ValidationException(csv, xlsx) ==
  IF csv.kind # "csv" THEN "FileNotFoundError"
  ELSE LET r == read_csv_with_encoding(CsvBytes(csv.id))
       IN  IF ~r.ok THEN "unreadable"
           ELSE IF xlsx.kind # "xlsx" THEN "read_excel"
           ELSE ComparisonRaises(r.df, read_excel(xlsx.sheet))

\* Mutant: when the comparison raises, the flags computed so far are kept.
validate_conversion_PartialFlags(csv, xlsx) ==
  IF ValidationException(csv, xlsx) \in {"KeyError", "IndexError"}
  THEN LET df_csv  == read_csv_with_encoding(CsvBytes(csv.id)).df
           df_xlsx == read_excel(xlsx.sheet)
       IN  ValidationResult(shape(df_csv) = shape(df_xlsx),
                            columns(df_csv) = columns(df_xlsx), FALSE, FALSE)
  ELSE IF ValidationException(csv, xlsx) # "none" THEN AllFalse
  ELSE CompareTables(read_csv_with_encoding(CsvBytes(csv.id)).df,
                     read_excel(xlsx.sheet))

\* Mutant: the validator re-reads the source with the standard parse only,
\* so it gets no table for a file that was read through a relaxation.
validate_conversion_PlainReread(csv, xlsx) ==
  IF ValidationException(csv, xlsx) # "none" THEN AllFalse
  ELSE IF read_csv_with_encoding(CsvBytes(csv.id)).how # "standard"
  THEN AllFalse
  ELSE CompareTables(read_csv_with_encoding(CsvBytes(csv.id)).df,
                     read_excel(xlsx.sheet))

\* validate_conversion(csv_path, xlsx_path) on the two directory entries.
validate_conversion(csv, xlsx) ==
  IF ValidationException(csv, xlsx) # "none" THEN AllFalse
  ELSE CompareTables(read_csv_with_encoding(CsvBytes(csv.id)).df,
                     read_excel(xlsx.sheet))

\* ------------------------------------------------------------ paths

\* A path of the watched directory: its stem and its suffix (Path.suffix).
Path(stem, suffix) == [stem |-> stem, suffix |-> suffix]

\* Path.with_suffix
with_suffix(path, suffix) == [path EXCEPT !.suffix = suffix]

\* str.lower on the suffixes of the model.
lower(suffix) ==
  CASE suffix = ".CSV" -> ".csv"
    [] suffix = ".TMP" -> ".tmp"
    [] OTHER -> suffix

CsvPath == Path("a", ".csv")

UpperCsvPath == Path("b", ".CSV")

PartialPath == Path("a", ".crdownload")

Paths ==
  { CsvPath, UpperCsvPath, PartialPath, Path("a", ".xlsx"),
    Path("b", ".xlsx"), Path("z", ".zip"), Path("z", ".7z"),
    Path("n", ".txt"), Path("t", ".TMP") }

\* ------------------------------------------------------------ archives

\* The sample archives: "bundle" holds one CSV, "notes" one text file,
\* "corrupt" is not an archive.
ArchiveIds == {"bundle", "notes", "corrupt"}

\* The entries extractall writes: path and content.
ArchiveEntries(id) ==
  CASE id = "bundle" -> {<<CsvPath, File("csv", "good", <<>>)>>}
    [] id = "notes" -> {<<Path("n", ".txt"), File("text", "", <<>>)>>}
    [] OTHER -> {}

\* ------------------------------------------------------------ processing

\* What one call of a processing function did: the directory afterwards, the
\* value returned, whether an exception left the function (raised), the
\* stage that decided the result, and for a CSV what the reader and the
\* validator returned.
Outcome(dir, ret, stage, read, validated, validation) ==
  [fs |-> dir, ret |-> ret, raised |-> FALSE, stage |-> stage,
   read |-> read, validated |-> validated, validation |-> validation]

NotRead == NoTable(<<>>)

\* Faults of the environment a call can meet.
CsvFaults ==
  {"none", "open_raises", "write_raises", "write_raises_partial",
   "unlink_raises"}

ArchiveFaults == {"none", "extract_raises"}

\* Mutant: the empty check never fires.
empty_Never(df) == FALSE

\* df.empty: an axis of length 0.
empty(df) == NRows(df) = 0 \/ Len(df) = 0

\* Mutant: the original is unlinked before the validation is looked at.
FinishCsv_UnlinksFirst(written, file_path, df, validation, fault) ==
  IF fault = "unlink_raises"
  THEN Outcome(written, FALSE, "exception", df, TRUE, validation)
  ELSE Outcome([written EXCEPT ![file_path] = Absent], is_valid(validation),
               IF is_valid(validation) THEN "converted" ELSE "invalid",
               df, TRUE, validation)

\* Mutant: True is returned whatever the validation says.
FinishCsv_AlwaysTrue(written, file_path, df, validation, fault) ==
  IF is_valid(validation)
  THEN IF fault = "unlink_raises"
       THEN Outcome(written, FALSE, "exception", df, TRUE, validation)
       ELSE Outcome([written EXCEPT ![file_path] = Absent], TRUE,
                    "converted", df, TRUE, validation)
  ELSE Outcome(written, TRUE, "invalid", df, TRUE, validation)

\* Mutant: a workbook that fails validation is removed.
FinishCsv_DropsArtifact(written, file_path, df, validation, fault) ==
  IF is_valid(validation)
  THEN IF fault = "unlink_raises"
       THEN Outcome(written, FALSE, "exception", df, TRUE, validation)
       ELSE Outcome([written EXCEPT ![file_path] = Absent], TRUE,
                    "converted", df, TRUE, validation)
  ELSE Outcome([written EXCEPT ![with_suffix(file_path, ".xlsx")] = Absent],
               FALSE, "invalid", df, TRUE, validation)

\* The end of process_csv_file: the branch on validation.is_valid.
FinishCsv(written, file_path, df, validation, fault) ==
  IF is_valid(validation)
  THEN IF fault = "unlink_raises"
       THEN Outcome(written, FALSE, "exception", df, TRUE, validation)
       ELSE Outcome([written EXCEPT ![file_path] = Absent], TRUE,
                    "converted", df, TRUE, validation)
  ELSE Outcome(written, FALSE, "invalid", df, TRUE, validation)

\* The middle of process_csv_file: normalize, write the workbook, validate.
ConvertCsv(dir, file_path, df, fault) ==
  LET xlsx_path    == with_suffix(file_path, ".xlsx")
      df_processed == preserve_numeric_precision(df.df)
      written      == [dir EXCEPT ![xlsx_path] =
                         File("xlsx", "", to_excel(df_processed))]
      partial      == [dir EXCEPT ![xlsx_path] = File("junk", "", <<>>)]
  IN  IF fault = "write_raises"
      THEN Outcome(dir, FALSE, "exception", df, FALSE, AllFalse)
      ELSE IF fault = "write_raises_partial"
      THEN Outcome(partial, FALSE, "exception", df, FALSE, AllFalse)
      ELSE \* TLC evaluates the validation once
           LET validation == validate_conversion(written[file_path],
                                                 written[xlsx_path])
           IN  FinishCsv(written, file_path, df, validation, fault)

process_csv_file(dir, file_path, fault) ==
  LET src == dir[file_path]
  IN  IF fault = "open_raises" \/ src.kind # "csv"
      THEN Outcome(dir, FALSE, "exception", NotRead, FALSE, AllFalse)
      ELSE LET df == read_csv_with_encoding(CsvBytes(src.id))
           IN  IF ~df.ok
               THEN Outcome(dir, FALSE, "unreadable", df, FALSE, AllFalse)
               ELSE IF empty(df.df)
               THEN Outcome(dir, FALSE, "empty", df, FALSE, AllFalse)
               ELSE ConvertCsv(dir, file_path, df, fault)

\* extractall: every entry is written into the directory of the archive.
ExtractAll(dir, id) ==
  [p \in Paths |->
     IF \E e \in ArchiveEntries(id) : e[1] = p
     THEN (CHOOSE e \in ArchiveEntries(id) : e[1] = p)[2]
     ELSE dir[p]]

process_zip_file(dir, file_path, fault) ==
  LET src == dir[file_path]
  IN  IF src.kind # "zip" \/ src.id = "corrupt"
      THEN Outcome(dir, FALSE, "bad_archive", NotRead, FALSE, AllFalse)
      ELSE IF fault = "extract_raises"
      THEN Outcome(dir, FALSE, "exception", NotRead, FALSE, AllFalse)
      ELSE Outcome(ExtractAll(dir, src.id), TRUE, "extracted", NotRead,
                   FALSE, AllFalse)

\* Mutant: only Bad7zFile is caught, any other exception leaves the function.
process_7z_file_NoCatchAll(dir, file_path, fault) ==
  LET src == dir[file_path]
  IN  IF src.kind # "7z" \/ src.id = "corrupt"
      THEN Outcome(dir, FALSE, "bad_archive", NotRead, FALSE, AllFalse)
      ELSE IF fault = "extract_raises"
      THEN [Outcome(dir, FALSE, "exception", NotRead, FALSE, AllFalse)
              EXCEPT !.raised = TRUE]
      ELSE Outcome(ExtractAll(dir, src.id), TRUE, "extracted", NotRead,
                   FALSE, AllFalse)

process_7z_file(dir, file_path, fault) ==
  LET src == dir[file_path]
  IN  IF src.kind # "7z" \/ src.id = "corrupt"
      THEN Outcome(dir, FALSE, "bad_archive", NotRead, FALSE, AllFalse)
      ELSE IF fault = "extract_raises"
      THEN Outcome(dir, FALSE, "exception", NotRead, FALSE, AllFalse)
      ELSE Outcome(ExtractAll(dir, src.id), TRUE, "extracted", NotRead,
                   FALSE, AllFalse)

\* ------------------------------------------------------------ state

VARIABLES
  fs,        \* the watched directory: path -> File
  queue,     \* events the observer has still to deliver, oldest first
  pc,        \* the handler: "idle", "sleeping" (in time.sleep) or "crashed"
  cur,       \* the path process_file is working on
  last,      \* what the latest process_file did
  arrivals,  \* changes the environment has made so far
  hist,      \* history: process_file executions begun and ended, and the
             \* conversions or extractions performed per path
  arg,       \* input of a function under test (SpecNormalize, SpecValidate)
  res        \* its result

vars == <<fs, queue, pc, cur, last, arrivals, hist, arg, res>>

Event(type, path, is_directory) ==
  [type |-> type, path |-> path, is_directory |-> is_directory]

NoRun ==
  [kind |-> "none", path |-> CsvPath, fault |-> "none", ret |-> FALSE,
   raised |-> FALSE, stage |-> "none", read |-> NotRead,
   validated |-> FALSE, validation |-> AllFalse]

Run(kind, path, fault, out) ==
  [kind |-> kind, path |-> path, fault |-> fault, ret |-> out.ret,
   raised |-> out.raised, stage |-> out.stage, read |-> out.read,
   validated |-> out.validated, validation |-> out.validation]

Skipped(kind, path) == [NoRun EXCEPT !.kind = kind, !.path = path]

Idle == <<>>

NoHistory == [begun |-> 0, ended |-> 0, work |-> [p \in Paths |-> 0]]

Init ==
  /\ fs = [p \in Paths |-> Absent]
  /\ queue = <<>>
  /\ pc = "idle"
  /\ cur = CsvPath
  /\ last = NoRun
  /\ arrivals = 0
  /\ hist = NoHistory
  /\ arg = Idle
  /\ res = Idle

\* ------------------------------------------------------------ environment

\* The files that arrive in the directory.
Downloads ==
  {<<CsvPath, File("csv", id, <<>>)>> : id \in CsvIds}
  \cup {<<UpperCsvPath, File("csv", id, <<>>)>> : id \in {"good", "frac"}}
  \cup {<<PartialPath, File("csv", id, <<>>)>> : id \in {"good", "nums"}}
  \cup {<<Path("z", ".zip"), File("zip", id, <<>>)>> :
          id \in {"bundle", "corrupt"}}
  \cup {<<Path("z", ".7z"), File("7z", id, <<>>)>> :
          id \in {"notes", "corrupt"}}
  \cup {<<Path("n", ".txt"), File("text", "", <<>>)>>,
        <<Path("t", ".TMP"), File("text", "", <<>>)>>}

\* The created events the observer queues for the files that are in after
\* and were not in before.
RECURSIVE CreatedEvents(_)
CreatedEvents(ps) ==
  IF ps = {} THEN <<>>
  ELSE LET p == CHOOSE q \in ps : TRUE
       IN  <<Event("created", p, FALSE)>> \o CreatedEvents(ps \ {p})

NewFiles(before, after) ==
  {p \in Paths : before[p].kind = "absent" /\ after[p].kind # "absent"}

\* A download lands under a new name.
EnvArrive ==
  /\ arrivals < MaxArrivals
  /\ pc # "crashed"
  /\ \E d \in Downloads :
       /\ fs[d[1]].kind = "absent"
       /\ fs' = [fs EXCEPT ![d[1]] = d[2]]
       /\ queue' = Append(queue, Event("created", d[1], FALSE))
  /\ arrivals' = arrivals + 1
  /\ UNCHANGED <<pc, cur, last, hist, arg, res>>

\* A sub-directory is created: an event with is_directory set.
EnvMkdir ==
  /\ arrivals < MaxArrivals
  /\ pc # "crashed"
  /\ queue' = Append(queue, Event("created", Path("d", ""), TRUE))
  /\ arrivals' = arrivals + 1
  /\ UNCHANGED <<fs, pc, cur, last, hist, arg, res>>

\* The browser renames a finished partial download to its final name.
EnvMove ==
  /\ arrivals < MaxArrivals
  /\ pc # "crashed"
  /\ fs[PartialPath].kind # "absent"
  /\ fs[CsvPath].kind = "absent"
  /\ fs' = [fs EXCEPT ![CsvPath] = fs[PartialPath], ![PartialPath] = Absent]
  /\ queue' = Append(queue, Event("moved", CsvPath, FALSE))
  /\ arrivals' = arrivals + 1
  /\ UNCHANGED <<pc, cur, last, hist, arg, res>>

\* The observer reports a second event for a path that exists: the file was
\* renamed away and back, or a download of the same content was renamed onto
\* it.
EnvReplace ==
  /\ arrivals < MaxArrivals
  /\ pc # "crashed"
  /\ \E p \in Paths :
       /\ fs[p].kind # "absent"
       /\ queue' = Append(queue, Event("moved", p, FALSE))
  /\ arrivals' = arrivals + 1
  /\ UNCHANGED <<fs, pc, cur, last, hist, arg, res>>

\* Someone removes a file.
EnvRemove ==
  /\ arrivals < MaxArrivals
  /\ pc # "crashed"
  /\ \E p \in Paths :
       /\ fs[p].kind # "absent"
       /\ fs' = [fs EXCEPT ![p] = Absent]
  /\ arrivals' = arrivals + 1
  /\ UNCHANGED <<queue, pc, cur, last, hist, arg, res>>

\* ------------------------------------------------------------ handler

\* on_created handing the event to a new thread: it returns at once, so
\* the next event is taken while the previous process_file is still running.
on_created_Threaded ==
  /\ pc # "crashed"
  /\ queue # <<>>
  /\ Head(queue).type = "created"
  /\ queue' = Tail(queue)
  /\ IF Head(queue).is_directory
     THEN UNCHANGED <<pc, cur, hist>>
     ELSE /\ pc' = "sleeping"
          /\ cur' = Head(queue).path
          /\ hist' = [hist EXCEPT !.begun = @ + 1]
  /\ UNCHANGED <<fs, last, arrivals, arg, res>>

\* on_created up to the time.sleep of process_file.
on_created ==
  /\ pc = "idle"
  /\ queue # <<>>
  /\ Head(queue).type = "created"
  /\ queue' = Tail(queue)
  /\ IF Head(queue).is_directory
     THEN UNCHANGED <<pc, cur, hist>>
     ELSE /\ pc' = "sleeping"
          /\ cur' = Head(queue).path
          /\ hist' = [hist EXCEPT !.begun = @ + 1]
  /\ UNCHANGED <<fs, last, arrivals, arg, res>>

\* on_moved up to the time.sleep of process_file: the destination path.
on_moved ==
  /\ pc = "idle"
  /\ queue # <<>>
  /\ Head(queue).type = "moved"
  /\ queue' = Tail(queue)
  /\ IF Head(queue).is_directory
     THEN UNCHANGED <<pc, cur, hist>>
     ELSE /\ pc' = "sleeping"
          /\ cur' = Head(queue).path
          /\ hist' = [hist EXCEPT !.begun = @ + 1]
  /\ UNCHANGED <<fs, last, arrivals, arg, res>>

TemporarySuffixes == {".tmp", ".crdownload", ".part"}

\* The processing function process_file dispatches to, applied.
Dispatch(dir, file_path, fault) ==
  LET suffix == lower(file_path.suffix)
  IN  IF suffix = ".csv" THEN process_csv_file(dir, file_path, fault)
      ELSE IF suffix = ".zip" THEN process_zip_file(dir, file_path, fault)
      ELSE process_7z_file(dir, file_path, fault)

\* Mutant: workbooks are taken for conversion like CSV files.
DispatchKind_ConvertsWorkbooks(file_path) ==
  LET suffix == lower(file_path.suffix)
  IN  IF suffix \in {".csv", ".xlsx"} THEN "csv"
      ELSE IF suffix = ".zip" THEN "zip"
      ELSE IF suffix = ".7z" THEN "7z"
      ELSE "unsupported"

DispatchKind(file_path) ==
  LET suffix == lower(file_path.suffix)
  IN  IF suffix = ".csv" THEN "csv"
      ELSE IF suffix = ".zip" THEN "zip"
      ELSE IF suffix = ".7z" THEN "7z"
      ELSE "unsupported"

FaultsOf(kind) == IF kind = "csv" THEN CsvFaults ELSE ArchiveFaults

\* Whether a call of a processing function converted or extracted: it wrote
\* the workbook and validated it, or extracted the archive.
Performed(out) == out.validated \/ out.stage = "extracted"

\* process_file without the exists() check: a path that vanished during the
\* sleep is dispatched by its suffix.
process_file_NoExistsCheck ==
  /\ pc = "sleeping"
  /\ IF lower(cur.suffix) \in TemporarySuffixes
     THEN /\ last' = Skipped("temporary", cur)
          /\ pc' = "idle"
          /\ hist' = [hist EXCEPT !.ended = @ + 1]
          /\ UNCHANGED <<fs, queue>>
     ELSE IF DispatchKind(cur) = "unsupported"
     THEN /\ last' = Skipped("unsupported", cur)
          /\ pc' = "idle"
          /\ hist' = [hist EXCEPT !.ended = @ + 1]
          /\ UNCHANGED <<fs, queue>>
     ELSE \E fault \in FaultsOf(DispatchKind(cur)) :
          \E out \in {Dispatch(fs, cur, fault)} :
                /\ last' = Run(DispatchKind(cur), cur, fault, out)
                /\ fs' = out.fs
                /\ queue' = queue \o CreatedEvents(NewFiles(fs, out.fs))
                /\ pc' = IF out.raised THEN "crashed" ELSE "idle"
                /\ hist' = [hist EXCEPT
                             !.ended = @ + 1,
                             !.work[cur] = IF Performed(out) THEN @ + 1
                                           ELSE @]
  /\ UNCHANGED <<cur, arrivals, arg, res>>

\* process_file from the end of the sleep to its return.
process_file ==
  /\ pc = "sleeping"
  /\ IF fs[cur].kind = "absent"
     THEN /\ last' = Skipped("missing", cur)
          /\ pc' = "idle"
          /\ hist' = [hist EXCEPT !.ended = @ + 1]
          /\ UNCHANGED <<fs, queue>>
     ELSE IF lower(cur.suffix) \in TemporarySuffixes
     THEN /\ last' = Skipped("temporary", cur)
          /\ pc' = "idle"
          /\ hist' = [hist EXCEPT !.ended = @ + 1]
          /\ UNCHANGED <<fs, queue>>
     ELSE IF DispatchKind(cur) = "unsupported"
     THEN /\ last' = Skipped("unsupported", cur)
          /\ pc' = "idle"
          /\ hist' = [hist EXCEPT !.ended = @ + 1]
          /\ UNCHANGED <<fs, queue>>
     ELSE \E fault \in FaultsOf(DispatchKind(cur)) :
          \E out \in {Dispatch(fs, cur, fault)} :
                /\ last' = Run(DispatchKind(cur), cur, fault, out)
                /\ fs' = out.fs
                /\ queue' = queue \o CreatedEvents(NewFiles(fs, out.fs))
                /\ pc' = IF out.raised THEN "crashed" ELSE "idle"
                /\ hist' = [hist EXCEPT
                             !.ended = @ + 1,
                             !.work[cur] = IF Performed(out) THEN @ + 1
                                           ELSE @]
  /\ UNCHANGED <<cur, arrivals, arg, res>>

Next ==
  \/ EnvArrive
  \/ EnvMkdir
  \/ EnvMove
  \/ EnvReplace
  \/ EnvRemove
  \/ on_created
  \/ on_moved
  \/ process_file

Spec == Init /\ [][Next]_vars

\* ------------------------------------------------------------ normalizer alone

\* The cell values the normalizer is exercised on.
Tokens ==
  { Str(<<"0", "0", "7">>), Str(<<"0", "4", "2">>), Str(<<"1", "0", "0">>),
    Str(<<"1", ".", "5">>), Str(<<"2", ".", "2", "5">>),
    Str(<<"2", ".", "0">>), Str(<<"3", ".", "0">>),
    Str(<<"b", "a", "d">>), NaN }

TextColumns ==
  UNION {[1..n -> Tokens] : n \in 1..MaxColLen}

\* A numeric column of n rows.
NumericColumn(dtype, n) ==
  Column("n", dtype,
         [i \in 1..n |-> Num(i * Scale + (IF dtype = "int64" THEN 0 ELSE 50))])

\* The tables the normalizer is exercised on: a text column, alone or
\* followed by a numeric column.
NormalizeInputs ==
  {<<Column("c", "object", cells)>> : cells \in TextColumns}
  \cup {<<Column("c", "object", cells), NumericColumn(dtype, Len(cells))>> :
          cells \in TextColumns, dtype \in {"int64", "float64"}}

InitNormalize ==
  /\ fs = [p \in Paths |-> Absent]
  /\ queue = <<>>
  /\ pc = "idle"
  /\ cur = CsvPath
  /\ last = NoRun
  /\ arrivals = 0
  /\ hist = NoHistory
  /\ arg \in NormalizeInputs
  /\ res = Idle

\* One call of preserve_numeric_precision on the table arg.
Normalize ==
  /\ res = Idle
  /\ res' = preserve_numeric_precision(arg)
  /\ UNCHANGED <<fs, queue, pc, cur, last, arrivals, hist, arg>>

SpecNormalize == InitNormalize /\ [][Normalize]_vars

\* ------------------------------------------------------------ validator alone

XlsxPath == with_suffix(CsvPath, ".xlsx")

\* The workbooks the validator is exercised on: the conversions of the
\* sample tables, workbooks that differ from a conversion in one cell, a
\* truncated workbook and no workbook.
Workbooks ==
  {File("xlsx", "", to_excel(preserve_numeric_precision(t))) :
     t \in {TGood, TGoodSkipped, THeader, TFrac, TNums, TLong}}
  \cup {File("xlsx", "", to_excel(t)) :
          t \in {TNumsCleared, TLongTail, TLongHead}}
  \cup {File("junk", "", <<>>), Absent}

Sources == {File("csv", id, <<>>) : id \in CsvIds} \cup {Absent}

InitValidate ==
  /\ \E c \in Sources : \E x \in Workbooks :
       /\ fs = [p \in Paths |->
                  IF p = CsvPath THEN c ELSE IF p = XlsxPath THEN x
                  ELSE Absent]
       /\ arg = <<c, x>>
  /\ queue = <<>>
  /\ pc = "idle"
  /\ cur = CsvPath
  /\ last = NoRun
  /\ arrivals = 0
  /\ hist = NoHistory
  /\ res = <<>>

\* One call of validate_conversion(csv_path, xlsx_path): it reads the two
\* files and writes nothing; res collects the results of the calls.
ValidateConsuming ==
  /\ Len(res) < MaxCalls
  /\ res' = Append(res, validate_conversion(fs[CsvPath], fs[XlsxPath]))
  /\ fs' = [fs EXCEPT ![XlsxPath] =
              IF is_valid(validate_conversion(fs[CsvPath], fs[XlsxPath]))
              THEN Absent ELSE @]
  /\ UNCHANGED <<queue, pc, cur, last, arrivals, hist, arg>>

Validate ==
  /\ Len(res) < MaxCalls
  /\ res' = Append(res, validate_conversion(fs[CsvPath], fs[XlsxPath]))
  /\ UNCHANGED <<fs, queue, pc, cur, last, arrivals, hist, arg>>

SpecValidate == InitValidate /\ [][Validate]_vars

\* ------------------------------------------------------------ claims: C1

\* A step in which process_file runs process_csv_file to its return.
CsvStep == pc = "sleeping" /\ pc' # "sleeping" /\ last'.kind = "csv"

\* The validator returned a result with all four flags true.
ValidatedTrue(run) ==
  /\ run.validated
  /\ run.validation.dimensions_match
  /\ run.validation.columns_match
  /\ run.validation.data_types_preserved
  /\ run.validation.sample_data_match

\* C1: process_csv_file deletes the original CSV only after
\* validate_conversion returned a valid result; when the reader returned no
\* table, the table was empty, validation failed or an exception was caught,
\* the original is still there, unchanged, when the function returns.
C1_DeletedOnlyAfterValid ==
  [][CsvStep =>
       /\ fs[cur].kind # "absent"
       /\ fs'[cur].kind = "absent" => ValidatedTrue(last')
       /\ last'.stage \in {"unreadable", "empty", "invalid", "exception"}
            => fs'[cur] = fs[cur]]_vars

\* A conversion that validated and removed its original.
C1_Witness ==
  /\ last.kind = "csv"
  /\ last.stage = "converted"
  /\ ValidatedTrue(last)
  /\ fs[last.path].kind = "absent"

\* ------------------------------------------------------------ claims: C2

\* C2: process_csv_file returns True exactly when the file was converted and
\* the original removed: after True the original is gone and the workbook of
\* the same name with suffix .xlsx exists; after False the original is still
\* there.
C2_TrueIffConvertedAndRemoved ==
  [][CsvStep =>
       /\ last'.ret =>
            /\ fs'[cur].kind = "absent"
            /\ fs'[with_suffix(cur, ".xlsx")].kind = "xlsx"
       /\ ~last'.ret => fs'[cur] = fs[cur] /\ fs'[cur].kind # "absent"
       /\ last'.ret <=> fs'[cur].kind = "absent"]_vars

\* True was returned for b.CSV: b.xlsx exists and b.CSV does not.
C2_Witness ==
  /\ last.kind = "csv"
  /\ last.ret
  /\ last.path = UpperCsvPath
  /\ fs[UpperCsvPath].kind = "absent"
  /\ fs[with_suffix(UpperCsvPath, ".xlsx")].kind = "xlsx"

\* ------------------------------------------------------------ claims: C3

\* C3: when the validator returns a result with a false flag,
\* process_csv_file returns False and both the original CSV and the workbook
\* it wrote stay on disk.
C3_InvalidKeepsBoth ==
  [][(CsvStep /\ last'.validated /\ ~ValidatedTrue(last')) =>
       /\ ~last'.ret
       /\ fs'[cur] = fs[cur]
       /\ fs'[cur].kind = "csv"
       /\ fs'[with_suffix(cur, ".xlsx")] =
            File("xlsx", "",
                 to_excel(preserve_numeric_precision(last'.read.df)))]_vars

\* A conversion whose validation failed on the dtypes alone, both files kept.
C3_Witness ==
  /\ last.kind = "csv"
  /\ last.stage = "invalid"
  /\ ~last.validation.data_types_preserved
  /\ last.validation.dimensions_match
  /\ fs[last.path].kind = "csv"
  /\ fs[with_suffix(last.path, ".xlsx")].kind = "xlsx"

\* ------------------------------------------------------------ claims: C4

\* A file of zero bytes: nothing to detect, EmptyDataError under every codec.
ZeroBytes(bytes) ==
  bytes.guess = "none" /\ \A c \in Codecs : bytes.std[c] = "other"

\* A file with a header line and no data line.
HeaderOnly(bytes) ==
  /\ \E c \in Codecs : bytes.std[c] = "ok"
  /\ Len(bytes.table) > 0
  /\ NRows(bytes.table) = 0

\* C4: for an empty CSV (header only, or zero bytes) process_csv_file
\* returns False, writes no workbook and keeps the original: the directory
\* is as it was.
C4_EmptyCsvSkipped ==
  [][(CsvStep /\ fs[cur].kind = "csv"
        /\ (ZeroBytes(CsvBytes(fs[cur].id))
            \/ HeaderOnly(CsvBytes(fs[cur].id)))) =>
       /\ ~last'.ret
       /\ ~last'.validated
       /\ fs' = fs]_vars

\* A header-only file was skipped as empty and is still there, without a
\* workbook.
C4_Witness ==
  /\ last.kind = "csv"
  /\ last.stage = "empty"
  /\ fs[last.path].kind = "csv"
  /\ HeaderOnly(CsvBytes(fs[last.path].id))
  /\ fs[with_suffix(last.path, ".xlsx")].kind = "absent"

\* ------------------------------------------------------------ reader alone

\* What chardet reports for a file: its guess and its confidence in percent.
ReadGuesses ==
  { <<"none", 0>>, <<"ascii", 100>>, <<"utf-8", 99>>, <<"utf-8", 60>>,
    <<"ISO-8859-1", 73>>, <<"UTF-16", 90>> }

StrategyNames == {strategies[k].name : k \in 1..Len(strategies)}

\* The files the reader is exercised on.  The codecs that extend ASCII see
\* the same lines, so they end the same way wherever they decode the bytes
\* (how); latin-1 decodes every byte; UTF-16 sees other lines (wide); any
\* set of relaxations may get through a ragged file.
ReadShapes ==
  { f \in [guess : ReadGuesses,
           how   : {"ok", "fields", "parser", "other"},
           utf8  : BOOLEAN,
           cp    : BOOLEAN,
           wide  : {"decode", "fields", "ok"},
           relax : SUBSET StrategyNames] :
      f.guess[1] = "ascii" => f.utf8 }

ReadInputs ==
  { Bytes(f.guess[1], f.guess[2],
          [c \in Codecs |->
             CASE c = "latin1" -> f.how
               [] c = "cp1252" -> IF f.cp THEN f.how ELSE "decode"
               [] c = "utf16"  -> f.wide
               [] OTHER        -> IF f.utf8 THEN f.how ELSE "decode"],
          f.relax, TGood, TGoodSkipped) : f \in ReadShapes }

InitRead ==
  /\ fs = [p \in Paths |-> Absent]
  /\ queue = <<>>
  /\ pc = "idle"
  /\ cur = CsvPath
  /\ last = NoRun
  /\ arrivals = 0
  /\ hist = NoHistory
  /\ arg \in ReadInputs
  /\ res = Idle

\* One call of read_csv_with_encoding on the file arg.
Read ==
  /\ res = Idle
  /\ res' = read_csv_with_encoding(arg)
  /\ UNCHANGED <<fs, queue, pc, cur, last, arrivals, hist, arg>>

SpecRead == InitRead /\ [][Read]_vars

\* ------------------------------------------------------------ one CSV arrival

\* One CSV file has arrived, by creation or by a rename, and its event waits
\* in the queue; nothing else happens in the directory.
InitOneCsv ==
  /\ \E d \in Downloads : \E type \in {"created", "moved"} :
       /\ d[2].kind = "csv"
       /\ lower(d[1].suffix) = ".csv"
       /\ fs = [p \in Paths |-> IF p = d[1] THEN d[2] ELSE Absent]
       /\ queue = <<Event(type, d[1], FALSE)>>
  /\ pc = "idle"
  /\ cur = CsvPath
  /\ last = NoRun
  /\ arrivals = 1
  /\ hist = NoHistory
  /\ arg = <<>>
  /\ res = Idle

\* The handler alone: the observer thread delivers the queued events.
NextOneCsv ==
  \/ on_created
  \/ on_moved
  \/ process_file

\* The observer thread keeps running: a queued event is delivered, and the
\* sleep and the processing call of a started process_file return (weak
\* fairness of process_file, which is enabled exactly while pc = "sleeping").
SpecOneCsv ==
  /\ InitOneCsv
  /\ [][NextOneCsv]_vars
  /\ WF_vars(on_created \/ on_moved)
  /\ []<>(pc # "sleeping")

\* ------------------------------------------------------------ claims: C5

\* The encodings whose standard parse the reader attempted, in order.
RECURSIVE StandardAttempts(_)
StandardAttempts(trace) ==
  IF trace = <<>> THEN <<>>
  ELSE LET front == StandardAttempts(SubSeq(trace, 1, Len(trace) - 1))
           e     == trace[Len(trace)]
       IN  IF e[2] = "standard" THEN Append(front, e[1]) ELSE front

\* Whether one attempt of the trace yields a table.
AttemptSucceeds(bytes, e) ==
  IF e[2] = "standard" THEN pd_read_csv(bytes, e[1]) = "ok"
  ELSE \E k \in 1..Len(strategies) :
         /\ strategies[k].name = e[2]
         /\ try_parse_csv_with_strategy(bytes, e[1], strategies[k]).ok

\* C5: the reader returns no table exactly when it has tried every candidate
\* encoding, in the order of the list, and no standard parse and no
\* relaxation it attempted succeeded; and when it returns no table
\* process_csv_file returns False and leaves the directory as it was.
C5_NoTableIffAllCandidatesFailed ==
  [][(CsvStep /\ fs[cur].kind = "csv" /\ last'.fault # "open_raises") =>
       LET bytes == CsvBytes(fs[cur].id)
           r     == last'.read
       IN  /\ ~r.ok <=>
                /\ StandardAttempts(r.trace) = encodings_to_try(bytes)
                /\ \A n \in 1..Len(r.trace) :
                     ~AttemptSucceeds(bytes, r.trace[n])
           /\ ~r.ok => (~last'.ret /\ fs' = fs)]_vars

\* The reader returned no table after the relaxations failed under every
\* encoding, and the file is still there.
C5_Witness ==
  /\ last.kind = "csv"
  /\ last.stage = "unreadable"
  /\ ~last.read.ok
  /\ Len(last.read.trace) > Len(StandardAttempts(last.read.trace))
  /\ fs[last.path].kind = "csv"

\* ------------------------------------------------------------ claims: C10

\* C10: an exception raised while converting a CSV or extracting an archive
\* is caught inside the processing function, which returns False; the
\* handler returns, is never stopped by it, and takes the next event.
C10_FailuresContained ==
  /\ pc # "crashed"
  /\ last.stage \in {"exception", "bad_archive"} =>
       (~last.ret /\ ~last.raised)
  /\ (pc = "idle" /\ queue # <<>>) => ENABLED (on_created \/ on_moved)

\* An extraction failed with an exception, the handler is idle again and the
\* next event is waiting.
C10_Witness ==
  /\ last.kind = "7z"
  /\ last.stage = "exception"
  /\ pc = "idle"
  /\ queue # <<>>

\* ------------------------------------------------------------ claims: C6

\* C6: validate_conversion never raises; whenever the source cannot be
\* re-read, the workbook cannot be read or the comparison raises, the result
\* it returns has all four flags false, hence is not valid.
C6_ExceptionYieldsAllFalse ==
  \A i \in 1..Len(res) :
     ValidationException(arg[1], arg[2]) # "none" =>
       /\ ~res[i].dimensions_match
       /\ ~res[i].columns_match
       /\ ~res[i].data_types_preserved
       /\ ~res[i].sample_data_match
       /\ ~is_valid(res[i])

\* A call whose comparison raised KeyError on two tables of the same shape.
C6_Witness ==
  /\ Len(res) > 0
  /\ ValidationException(arg[1], arg[2]) = "KeyError"
  /\ shape(read_csv_with_encoding(CsvBytes(arg[1].id)).df)
       = shape(read_excel(arg[2].sheet))

\* ------------------------------------------------------------ claims: C7

\* Both files of the pair can be read into tables.
BothReadable ==
  /\ arg[1].kind = "csv"
  /\ read_csv_with_encoding(CsvBytes(arg[1].id)).ok
  /\ arg[2].kind = "xlsx"

\* C7 as the claim states it: each flag is the value of its own comparison
\* of the two tables, whatever the other comparisons find.  The code breaks
\* it: a differing column name makes every flag false.
C7_FlagsIndependent ==
  \A i \in 1..Len(res) :
     BothReadable =>
       LET df_csv  == read_csv_with_encoding(CsvBytes(arg[1].id)).df
           df_xlsx == read_excel(arg[2].sheet)
       IN  /\ res[i].dimensions_match = (shape(df_csv) = shape(df_xlsx))
           /\ res[i].columns_match = (columns(df_csv) = columns(df_xlsx))

\* ------------------------------------------------------------ claims: C8

AllPresentCoerce(cells) ==
  \A i \in 1..Len(cells) : ~isna(cells[i]) => Parses(cells[i].s)

\* Every present value of the column is an exact integer.
AllPresentInteger(cells) ==
  \A i \in 1..Len(cells) :
     (~isna(cells[i]) /\ Parses(cells[i].s))
       => NumValue(cells[i].s) % Scale = 0

\* The column was replaced by its numeric form.
BecameNumeric(before, after) ==
  /\ after.dtype = "float64"
  /\ after.cells = [i \in 1..Len(before.cells) |-> to_numeric(before.cells[i])]

\* C9 as the claim states it: a text column is replaced by its numeric form
\* exactly when every non-missing value coerces to a number and not every
\* present value is an exact integer, and is left as it was otherwise.  The
\* code breaks it on a fractional column with a missing entry.
C9_NumericExactlyWhenFractional ==
  res # Idle =>
    /\ BecameNumeric(arg[1], res[1])
         <=> (AllPresentCoerce(arg[1].cells)
              /\ ~AllPresentInteger(arg[1].cells))
    /\ ~BecameNumeric(arg[1], res[1]) => res[1] = arg[1]

\* ------------------------------------------------------------ claims: C11

\* C11 as the claim states it: whatever events are delivered, no path is
\* converted or extracted more than once.  The handler keeps no record of
\* what it processed, so a second event for an archive, or for a CSV kept
\* after a failed validation, runs the processing again.
C11_AtMostOncePerFile == \A p \in Paths : hist.work[p] <= 1

\* ------------------------------------------------------------ claims: C12

\* C12: events are handled one at a time.  At most one process_file
\* execution is in progress, the handler is inside one exactly while it
\* sleeps, and the execution that ends is the one that began last, so the
\* wait, the checks and the processing of one event are over before the
\* next event is taken.
C12_OneAtATime ==
  /\ hist.begun - hist.ended \in {0, 1}
  /\ pc = "sleeping" <=> hist.begun - hist.ended = 1
  /\ (pc # "sleeping" /\ hist.ended > 0) => last.path = cur

\* One event has been handled to its end and the next is being handled while
\* a third waits in the queue.
C12_Witness ==
  /\ pc = "sleeping"
  /\ hist.ended >= 1
  /\ queue # <<>>

\* ------------------------------------------------------------ claims: C13

\* process_file leaves its sleep and returns (or raises).
ProcessStep == pc = "sleeping" /\ pc' # "sleeping"

\* The suffixes of files still being downloaded, in the spellings the
\* directory holds.
C13_TemporarySpellings == {".tmp", ".TMP", ".crdownload", ".part"}

\* The suffix each processing function is dispatched for, in the spellings
\* the directory holds.
C13_Dispatched ==
  [p \in Paths |->
     IF p.suffix \in {".csv", ".CSV"} THEN "csv"
     ELSE IF p.suffix = ".zip" THEN "zip"
     ELSE IF p.suffix = ".7z" THEN "7z"
     ELSE "unsupported"]

\* C13: after the wait process_file checks existence first and the suffix
\* second.  A path that no longer exists, a path with a temporary suffix in
\* any letter case and a path with any other unsupported suffix are skipped:
\* no processing function is called and the directory and the event queue
\* stay as they were.  Every other path is dispatched by its suffix.
C13_ChecksBeforeDispatch ==
  [][ProcessStep =>
       IF fs[cur].kind = "absent"
       THEN last'.kind = "missing" /\ fs' = fs /\ queue' = queue
                                   /\ hist'.work = hist.work
       ELSE IF cur.suffix \in C13_TemporarySpellings
       THEN last'.kind = "temporary" /\ fs' = fs /\ queue' = queue
                                     /\ hist'.work = hist.work
       ELSE IF C13_Dispatched[cur] = "unsupported"
       THEN last'.kind = "unsupported" /\ fs' = fs /\ queue' = queue
                                       /\ hist'.work = hist.work
       ELSE last'.kind = C13_Dispatched[cur] /\ last'.path = cur]_vars

\* A file that exists and carries the suffix .TMP was skipped as temporary.
C13_Witness ==
  /\ last.kind = "temporary"
  /\ last.path.suffix = ".TMP"
  /\ fs[last.path].kind # "absent"
  /\ pc = "idle"

\* ------------------------------------------------------------ claims: C14

\* The five relaxations in the order the claim lists them: lenient engine
\* skipping bad lines, lenient engine warning, strict engine quoting all,
\* strict engine without quoting, lenient engine quoting all.
C14_Relaxations ==
  << [name |-> "Python engine with error skip", engine |-> "python",
      on_bad_lines |-> "skip", quoting |-> "QUOTE_MINIMAL"],
     [name |-> "Python engine with error warn", engine |-> "python",
      on_bad_lines |-> "warn", quoting |-> "QUOTE_MINIMAL"],
     [name |-> "C engine with QUOTE_ALL", engine |-> "c",
      on_bad_lines |-> "error", quoting |-> "QUOTE_ALL"],
     [name |-> "C engine with QUOTE_NONE", engine |-> "c",
      on_bad_lines |-> "error", quoting |-> "QUOTE_NONE"],
     [name |-> "Python engine with QUOTE_ALL", engine |-> "python",
      on_bad_lines |-> "warn", quoting |-> "QUOTE_ALL"] >>

\* How many relaxations the trace lists directly after its n-th attempt.
RelaxationsAfter(trace, n) ==
  Cardinality({m \in (n + 1)..Len(trace) :
                 \A j \in (n + 1)..m : trace[j][2] # "standard"})

\* C14: after a standard parse that failed with a field-count mismatch the
\* trace lists relaxations against the same encoding, in the fixed order and
\* from the first one on; every one before the last listed failed; when the
\* last listed succeeded the read ends there with its table, and otherwise
\* all five were tried.
C14_RelaxationsInOrder ==
  res # Idle =>
    \A n \in 1..Len(res.trace) :
      (res.trace[n][2] = "standard"
       /\ pd_read_csv(arg, res.trace[n][1]) = "fields") =>
        LET enc == res.trace[n][1]
            K   == RelaxationsAfter(res.trace, n)
            got(j) == try_parse_csv_with_strategy(arg, enc,
                                                  C14_Relaxations[j])
        IN  /\ K \in 1..5
            /\ \A j \in 1..K :
                 res.trace[n + j] = <<enc, C14_Relaxations[j].name>>
            /\ \A j \in 1..(K - 1) : ~got(j).ok
            /\ IF got(K).ok
               THEN /\ n + K = Len(res.trace)
                    /\ res.ok
                    /\ res.enc = enc
                    /\ res.how = C14_Relaxations[K].name
                    /\ res.df = got(K).df
               ELSE K = 5

\* The read ended with the table of the fourth relaxation, after the first
\* three had failed against the same encoding.
C14_Witness ==
  /\ res # Idle
  /\ res.ok
  /\ res.how = "C engine with QUOTE_NONE"
  /\ Len(res.trace) >= 5
  /\ res.trace[Len(res.trace) - 1] = <<res.enc, "C engine with QUOTE_ALL">>

\* ------------------------------------------------------------ claims: C15

\* C15: the trace lists a relaxation only against an encoding whose
\* standard parse failed with a field-count mismatch, never against one
\* under which the bytes do not decode; and a standard parse that failed
\* with a decode error or with any other error is followed directly by the
\* standard parse of another encoding, or ends the read.
C15_RelaxOnlyAfterFieldMismatch ==
  res # Idle =>
    \A n \in 1..Len(res.trace) :
      LET enc == res.trace[n][1]
          end == pd_read_csv(arg, enc)
      IN  IF res.trace[n][2] # "standard"
          THEN end = "fields" /\ arg.std[Codec(enc)] # "decode"
          ELSE end \in {"decode", "parser", "other"} =>
                 \/ n = Len(res.trace) /\ ~res.ok
                 \/ /\ n < Len(res.trace)
                    /\ res.trace[n + 1][2] = "standard"
                    /\ res.trace[n + 1][1] # enc

\* The standard parse failed with a decode error under the first two
\* encodings, each followed at once by the next encoding, and relaxations
\* were tried under the third, where it failed with a field-count mismatch.
C15_Witness ==
  /\ res # Idle
  /\ Len(res.trace) >= 4
  /\ pd_read_csv(arg, res.trace[1][1]) = "decode"
  /\ res.trace[2][2] = "standard"
  /\ pd_read_csv(arg, res.trace[2][1]) = "decode"
  /\ res.trace[3][2] = "standard"
  /\ pd_read_csv(arg, res.trace[3][1]) = "fields"
  /\ res.trace[4][2] # "standard"

\* ------------------------------------------------------------ claims: C16

\* The candidate list as the claim gives it: the detector's answer, then
\* the four fixed names without the one the detector answered.
C16_Fixed == <<"utf-8", "latin-1", "cp1252", "iso-8859-1">>

C16_Candidates(bytes) ==
  LET g == detect_file_encoding(bytes)
      keep(e) == e # g
  IN  <<g>> \o SelectSeq(C16_Fixed, keep)

\* Whether the reader gets a table under candidate e: by the standard parse,
\* or by a relaxation after a field-count mismatch.
C16_CandidateSucceeds(bytes, e) ==
  \/ pd_read_csv(bytes, e) = "ok"
  \/ /\ pd_read_csv(bytes, e) = "fields"
     /\ \E k \in 1..Len(strategies) :
          try_parse_csv_with_strategy(bytes, e, strategies[k]).ok

\* The reader tries the candidates in the order of the list, from the first
\* one on, stops at the first that succeeds and returns its table, and
\* tries all of them when none succeeds.
C16_FirstCandidateWins ==
  LET cands == C16_Candidates(arg)
      tried == StandardAttempts(res.trace)
  IN  /\ Len(tried) \in 1..Len(cands)
      /\ tried = SubSeq(cands, 1, Len(tried))
      /\ \A i \in 1..(Len(tried) - 1) : ~C16_CandidateSucceeds(arg, tried[i])
      /\ res.ok <=> C16_CandidateSucceeds(arg, tried[Len(tried)])
      /\ res.ok => res.enc = tried[Len(tried)]
      /\ (res.ok /\ res.how = "standard") => res.df = arg.table
      /\ ~res.ok => Len(tried) = Len(cands)

\* C16 as the claim states it: the candidates are tried in the order of the
\* de-duplicated list, the first that succeeds gives the table, and no
\* encoding is tried twice.  latin-1 and iso-8859-1 name one encoding, which
\* the reader tries again after it failed.
C16_NoEncodingTwice ==
  res # Idle =>
    /\ C16_FirstCandidateWins
    /\ \A i, j \in 1..Len(StandardAttempts(res.trace)) :
         i # j => Codec(StandardAttempts(res.trace)[i])
                    # Codec(StandardAttempts(res.trace)[j])

\* C16 (amended): the candidates are tried in the order of the list
\* de-duplicated by name, the first that succeeds gives the table, and no
\* encoding name is tried twice.
C16_NoNameTwice ==
  res # Idle =>
    /\ C16_FirstCandidateWins
    /\ \A i, j \in 1..Len(StandardAttempts(res.trace)) :
         i # j => StandardAttempts(res.trace)[i]
                    # StandardAttempts(res.trace)[j]

\* The detector answered utf-8, which is also the first fixed name; utf-8
\* failed and was tried once, and the table came from the second candidate.
C16_Witness ==
  /\ res # Idle
  /\ arg.guess = "utf-8"
  /\ arg.conf > ConfidenceThreshold
  /\ res.ok
  /\ StandardAttempts(res.trace) = <<"utf-8", "latin-1">>

\* ------------------------------------------------------------ claims: C17

\* Every sampled cell of the source has a cell in the workbook.
C17_SampleAvailable ==
  /\ BothReadable
  /\ ComparisonRaises(read_csv_with_encoding(CsvBytes(arg[1].id)).df,
                      read_excel(arg[2].sheet)) = "none"

\* Two cells match as the claim says: both are missing, or both are numbers
\* no further apart than 1e-6, or else their string forms are identical.
C17_Matches(df_csv, df_xlsx, name, i) ==
  LET a == ColByName(df_csv, name).cells[i]
      b == ColByName(df_xlsx, name).cells[i]
  IN  IF isna(a) /\ isna(b) THEN TRUE
      ELSE IF a.k = "num" /\ b.k = "num"
      THEN Abs(a.n - b.n) * 1000000 <= Scale
      ELSE str(a, ValueType(df_csv, name, i))
             = str(b, ValueType(df_xlsx, name, i))

\* C17 as the claim states it: sample_data_match is false exactly when some
\* cell of the first min(5, rows) rows, in any column, does not match.  The
\* code breaks it: a number against a missing value passes as a match.
C17_SampleFlagExact ==
  \A k \in 1..Len(res) :
     C17_SampleAvailable =>
       LET df_csv  == read_csv_with_encoding(CsvBytes(arg[1].id)).df
           df_xlsx == read_excel(arg[2].sheet)
           rows    == IF NRows(df_csv) < 5 THEN NRows(df_csv) ELSE 5
       IN  res[k].sample_data_match
             <=> \A i \in 1..rows : \A j \in 1..Len(df_csv) :
                    C17_Matches(df_csv, df_xlsx, df_csv[j].name, i)

\* ------------------------------------------------------------ claims: C18

\* The coercion of a text column raises: the comparison with astype(int) is
\* reached (some value coerces, every present value coerces) and the coerced
\* column holds a missing value.
C18_CoercionRaises(col) ==
  LET numeric_col == [i \in 1..Len(col.cells) |-> to_numeric(col.cells[i])]
  IN  /\ col.dtype = "object"
      /\ \E i \in 1..Len(numeric_col) : ~isna(numeric_col[i])
      /\ \A i \in 1..Len(numeric_col) :
           isna(numeric_col[i]) => isna(col.cells[i])
      /\ \E i \in 1..Len(numeric_col) : isna(numeric_col[i])

\* C18: preserve_numeric_precision always returns a table; the table has the
\* columns of its input, by name and in order, with as many rows; a column
\* that is not text and a text column whose coercion raises come back as
\* they were; and the input table is left as it was.
C18_NormalizerTotalAndPure ==
  /\ [](res # Idle =>
          /\ Len(res) = Len(arg)
          /\ \A j \in 1..Len(arg) :
               /\ res[j].name = arg[j].name
               /\ Len(res[j].cells) = Len(arg[j].cells)
               /\ arg[j].dtype # "object" => res[j] = arg[j]
               /\ C18_CoercionRaises(arg[j]) => res[j] = arg[j])
  /\ [][arg' = arg]_vars

\* A table of a text column whose coercion raises and a numeric column was
\* normalized and came back as it was.
C18_Witness ==
  /\ res # Idle
  /\ Len(arg) = 2
  /\ arg[2].dtype = "float64"
  /\ C18_CoercionRaises(arg[1])
  /\ res = arg

\* ------------------------------------------------------------ claims: C19

C20_NoFeedback ==
  /\ [](hist.begun <= 2)
  /\ [][(pc = "sleeping" /\ cur.suffix = ".xlsx") =>
          /\ last'.kind = "unsupported"
          /\ fs' = fs
          /\ queue' = queue
          /\ hist'.work = hist.work
          /\ pc' = "idle"]_vars
  /\ <>[](pc = "idle" /\ queue = <<>>)

\* The CSV was converted and removed, the created event of its workbook was
\* handled and skipped, and nothing is left to do.
C20_Witness ==
  /\ hist.begun = 2
  /\ hist.ended = 2
  /\ last.kind = "unsupported"
  /\ last.path.suffix = ".xlsx"
  /\ fs[last.path].kind = "xlsx"
  /\ \A p \in Paths : fs[p].kind # "csv"
  /\ queue = <<>>
  /\ pc = "idle"

====
